---- MODULE Spec2Model ----
(***************************************************************************)
(* Model of revoice's segment post-processing pipeline                     *)
(* (src/revoice/cli.py, src/revoice/postprocess.py).                       *)
(*                                                                         *)
(* Conventions.  A Python str is a sequence of one-character strings; a    *)
(* character outside ASCII is written by its code point ("U+3002").  A     *)
(* Segment is the tuple <<start, end, text>>.  Times are exact integers in *)
(* tenths of a second (0.6 s = 6), so the arithmetic of the code is exact. *)
(***************************************************************************)
EXTENDS Integers, Sequences, FiniteSets, TLC

VARIABLES
    pc,                      \* position of the modelled call
    segments,                \* input List[Tuple[float, float, str]]
    min_duration,            \* merge_short_segments' min_duration
    merged,                  \* merge_short_segments' return value
    bucket_seconds,          \* bucket_segments' bucket_seconds
    grouped,                 \* bucket_segments' return value
    duration,                \* main: info.duration
    raw_segments,            \* main: raw_segments
    last_percent,            \* main: last_percent
    stdout,                  \* main: the values of the [PROGRESS] lines printed
    sentences,               \* _collect_sentences' return value
    sentences_per_paragraph, \* format_plain_text's sentences_per_paragraph
    style,                   \* format_transcript's style
    outcome,                 \* <<"return", str>> or <<"ValueError", message>>
    seconds,                 \* hhmmss_ms' / webvtt_ts' seconds, in quarters of a millisecond
    srt_ts,                  \* hhmmss_ms' return value
    vtt_ts                   \* webvtt_ts' return value

segVars == <<segments, min_duration, merged, bucket_seconds, grouped>>
mainVars == <<duration, raw_segments, last_percent, stdout>>
textVars == <<sentences, sentences_per_paragraph, style, outcome>>
clockVars == <<seconds, srt_ts, vtt_ts>>
vars == <<pc, segVars, mainVars, textVars, clockVars>>

----------------------------------------------------------------------------
(* Bounds of the model                                                     *)

MaxSegs == 3
MaxTime == 2

----------------------------------------------------------------------------
(* Python str helpers                                                      *)

\* str.strip() / re's \s: the whitespace characters the model's texts use
Whitespace == {" ", "\t", "\n"}

RECURSIVE lstrip(_)
lstrip(t) ==
    IF t = <<>> THEN <<>>
    ELSE IF Head(t) \in Whitespace THEN lstrip(Tail(t)) ELSE t

RECURSIVE rstrip(_)
rstrip(t) ==
    IF t = <<>> THEN <<>>
    ELSE IF t[Len(t)] \in Whitespace THEN rstrip(SubSeq(t, 1, Len(t) - 1)) ELSE t

strip(t) == rstrip(lstrip(t))

\* sep.join(parts)
RECURSIVE join(_, _)
join(sep, parts) ==
    IF parts = <<>> THEN <<>>
    ELSE IF Len(parts) = 1 THEN parts[1]
    ELSE parts[1] \o sep \o join(sep, Tail(parts))

Max(a, b) == IF a >= b THEN a ELSE b
Min(a, b) == IF a <= b THEN a ELSE b

----------------------------------------------------------------------------
(* cli.py: merge_short_segments                                            *)

\* mutant: the test also merges an accumulator of exactly min_duration
ShouldMergeInclusive(cur, min_d) == (cur[2] - cur[1]) <= min_d

\* cli.py:122  if (cur_e - cur_s) < min_duration
ShouldMerge(cur, min_d) == (cur[2] - cur[1]) < min_d

\* mutant: the absorbed text replaces the accumulator's text
AbsorbDropsText(cur, nxt) == <<cur[1], nxt[2], strip(nxt[3])>>

\* cli.py:123-124  cur_e = e; cur_t = (cur_t + " " + t).strip()
Absorb(cur, nxt) == <<cur[1], nxt[2], strip(cur[3] \o <<" ">> \o nxt[3])>>

\* cli.py:121-128  the loop over segments[1:] and the final flush
RECURSIVE MergeLoop(_, _, _, _)
MergeLoop(rest, cur, acc, min_d) ==
    IF rest = <<>> THEN Append(acc, cur)
    ELSE IF ShouldMerge(cur, min_d)
         THEN MergeLoop(Tail(rest), Absorb(cur, Head(rest)), acc, min_d)
         ELSE MergeLoop(Tail(rest), Head(rest), Append(acc, cur), min_d)

merge_short_segments(segs, min_d) ==
    IF segs = <<>> THEN segs
    ELSE MergeLoop(Tail(segs), segs[1], <<>>, min_d)

----------------------------------------------------------------------------
(* Inputs: segment lists that satisfy the Segment model                    *)

Times == 0 .. MaxTime

TextPool == { <<"a">>, <<" ", "b", " ">>, <<>> }

SegmentPool == { <<s, e, t>> : s \in Times, e \in Times, t \in TextPool }

\* end >= start for every segment, starts non-decreasing
IsSegmentList(segs) ==
    /\ \A i \in 1 .. Len(segs) : segs[i][1] <= segs[i][2]
    /\ \A i \in 1 .. Len(segs) - 1 : segs[i][1] <= segs[i + 1][1]

\* [(0.0,0.4,"Hello"),(0.4,0.9,"world."),(12.0,13.0,"Next.")]
ExampleSegments ==
    << <<0, 4, <<"H", "e", "l", "l", "o">> >>,
       <<4, 9, <<"w", "o", "r", "l", "d", ".">> >>,
       <<120, 130, <<"N", "e", "x", "t", ".">> >> >>

\* cli.py:116  min_duration: float = 0.6, in tenths of a second
DefaultMinDuration == 6

\* the merged form of ExampleSegments: [(0.0,0.9,"Hello world."),(12.0,13.0,"Next.")]
ExampleMerged ==
    << <<0, 9, <<"H", "e", "l", "l", "o", " ", "w", "o", "r", "l", "d", ".">> >>,
       <<120, 130, <<"N", "e", "x", "t", ".">> >> >>

----------------------------------------------------------------------------
(* cli.py: bucket_segments                                                 *)

\* cli.py:73, 78  int(start // bucket_seconds)
BucketIndex(start, w) == start \div w

\* mutant: the comparison never finds the running bucket again
SameBucketNever(bucket, current_bucket) == bucket < current_bucket

\* cli.py:79  if bucket == current_bucket
SameBucket(bucket, current_bucket) == bucket = current_bucket

\* mutant: the aggregate's end is the last member's end
BucketEndLast(bucket_end, end) == end

\* cli.py:80  bucket_end = max(bucket_end, end)
BucketEnd(bucket_end, end) == Max(bucket_end, end)

\* cli.py:83, 88  ' '.join(texts).strip()
BucketText(texts) == strip(join(<<" ">>, texts))

\* cli.py:77-88  the loop over segments[1:] and the final flush
RECURSIVE BucketLoop(_, _, _, _, _, _, _)
BucketLoop(rest, current_bucket, bucket_start, bucket_end, texts, acc, w) ==
    IF rest = <<>> THEN Append(acc, <<bucket_start, bucket_end, BucketText(texts)>>)
    ELSE LET start  == Head(rest)[1]
             end    == Head(rest)[2]
             text   == Head(rest)[3]
             bucket == BucketIndex(start, w)
         IN  IF SameBucket(bucket, current_bucket)
             THEN BucketLoop(Tail(rest), current_bucket, bucket_start,
                             BucketEnd(bucket_end, end), Append(texts, text), acc, w)
             ELSE BucketLoop(Tail(rest), bucket, start, end, <<text>>,
                             Append(acc, <<bucket_start, bucket_end, BucketText(texts)>>), w)

bucket_segments(segs, w) ==
    IF segs = <<>> THEN segs
    ELSE IF w <= 0 THEN segs
    ELSE BucketLoop(Tail(segs), BucketIndex(segs[1][1], w), segs[1][1], segs[1][2],
                    <<segs[1][3]>>, <<>>, w)

\* cli.py:67  bucket_seconds: float = 10.0, in tenths of a second
DefaultBucketSeconds == 100

----------------------------------------------------------------------------
(* Specifications of the two segment functions over bounded inputs.        *)
(* AddSegment builds an input list that satisfies the Segment model; the   *)
(* Call actions apply the function to the list built so far.               *)

\* the variables of main, when main is not the function under study
MainIdle ==
    /\ duration = 0
    /\ raw_segments = <<>>
    /\ last_percent = <<0, 1>>
    /\ stdout = <<>>

\* the variables of the time formatter, when it is not under study
ClockIdle ==
    /\ seconds = 0
    /\ srt_ts = <<>>
    /\ vtt_ts = <<>>

\* the variables of postprocess.py, when it is not under study
TextIdle ==
    /\ sentences = <<>>
    /\ sentences_per_paragraph = 0
    /\ style = <<>>
    /\ outcome = <<>>

AddSegment ==
    /\ pc = "input"
    /\ Len(segments) < MaxSegs
    /\ \E x \in SegmentPool :
          /\ IsSegmentList(Append(segments, x))
          /\ segments' = Append(segments, x)
    /\ UNCHANGED <<pc, min_duration, merged, bucket_seconds, grouped>>
    /\ UNCHANGED <<mainVars, textVars, clockVars>>

InitMerge ==
    /\ pc = "input"
    /\ segments \in { <<>>, ExampleSegments }
    /\ min_duration \in (0 .. MaxTime + 1) \cup { DefaultMinDuration }
    /\ merged = <<>>
    /\ bucket_seconds = 0
    /\ grouped = <<>>
    /\ MainIdle
    /\ TextIdle
    /\ ClockIdle

CallMerge ==
    /\ pc = "input"
    /\ merged' = merge_short_segments(segments, min_duration)
    /\ pc' = "merged"
    /\ UNCHANGED <<segments, min_duration, bucket_seconds, grouped>>
    /\ UNCHANGED <<mainVars, textVars, clockVars>>

NextMerge == AddSegment \/ CallMerge

SpecMerge == InitMerge /\ [][NextMerge]_vars

InitBucket ==
    /\ pc = "input"
    /\ segments \in { <<>>, ExampleMerged }
    /\ bucket_seconds \in (-1 .. MaxTime + 1) \cup { DefaultBucketSeconds }
    /\ grouped = <<>>
    /\ min_duration = 0
    /\ merged = <<>>
    /\ MainIdle
    /\ TextIdle
    /\ ClockIdle

CallBucket ==
    /\ pc = "input"
    /\ grouped' = bucket_segments(segments, bucket_seconds)
    /\ pc' = "bucketed"
    /\ UNCHANGED <<segments, min_duration, merged, bucket_seconds>>
    /\ UNCHANGED <<mainVars, textVars, clockVars>>

NextBucket == AddSegment \/ CallBucket

SpecBucket == InitBucket /\ [][NextBucket]_vars

----------------------------------------------------------------------------
(* Claims about merge_short_segments (under SpecMerge)                     *)

\* the sorted positions at which an output segment starts, for a set of cuts
GroupStarts(cuts) == {1} \cup cuts

\* the last input position of the group that starts at c
GroupLast(cuts, c, n) ==
    IF \E x \in cuts : x > c
    THEN (CHOOSE x \in cuts : x > c /\ \A y \in cuts : y > c => x <= y) - 1
    ELSE n

\* the 1-based rank of start c among the starts
GroupRank(cuts, c) == Cardinality({ x \in GroupStarts(cuts) : x <= c })

\* the accumulator's text after segments c..i were taken: joined with one
\* space and trimmed at every absorption
RECURSIVE AccText(_, _, _)
AccText(segs, c, i) ==
    IF i = c THEN segs[c][3]
    ELSE strip(AccText(segs, c, i - 1) \o <<" ">> \o segs[i][3])

\* out is segs cut into consecutive groups where, inside a group, every
\* absorption happened with the accumulator shorter than min_d, and every
\* flushed accumulator that is followed by a segment was at least min_d long
IsMergeBy(segs, min_d, out, cuts) ==
    LET n == Len(segs) IN
    /\ Len(out) = Cardinality(GroupStarts(cuts))
    /\ \A c \in GroupStarts(cuts) :
          LET l == GroupLast(cuts, c, n) IN
          /\ out[GroupRank(cuts, c)] = <<segs[c][1], segs[l][2], AccText(segs, c, l)>>
          /\ \A i \in (c + 1) .. l : segs[i - 1][2] - segs[c][1] < min_d
          /\ l < n => segs[l][2] - segs[c][1] >= min_d

\* C1: merge_short_segments absorbs the next segment exactly when the
\* accumulator's own duration is below min_duration, whatever the next
\* segment's duration; otherwise it flushes the accumulator unchanged; the
\* last accumulator is flushed; the documented example merges as documented.
C1_MergeByAccumulatorDuration ==
    pc = "merged" =>
        /\ segments # <<>> =>
              \E cuts \in SUBSET (2 .. Len(segments)) :
                  IsMergeBy(segments, min_duration, merged, cuts)
        /\ (segments = ExampleSegments /\ min_duration = DefaultMinDuration)
              => merged = ExampleMerged

\* the documented example has been merged
C1_Witness ==
    /\ pc = "merged"
    /\ segments = ExampleSegments
    /\ min_duration = DefaultMinDuration
    /\ merged = ExampleMerged

\* t occurs in s at offset p (1-based)
OccursAt(t, s, p) == p + Len(t) - 1 <= Len(s) /\ SubSeq(s, p, p + Len(t) - 1) = t

\* the trimmed texts of segs[i..] occur, in order, in the texts of
\* out[j..], starting in out[j] at offset p or later
RECURSIVE EmbedsFrom(_, _, _, _, _)
EmbedsFrom(segs, out, i, j, p) ==
    \/ i > Len(segs)
    \/ \E j2 \in j .. Len(out) :
          \E p2 \in (IF j2 = j THEN p ELSE 1) .. (Len(out[j2][3]) + 1) :
              /\ OccursAt(strip(segs[i][3]), out[j2][3], p2)
              /\ EmbedsFrom(segs, out, i + 1, j2, p2 + Len(strip(segs[i][3])))

\* C2: every input text, trimmed, is a substring of some output text, the
\* input texts appear in their original order across the outputs, and the
\* empty list merges to the empty list.
C2_MergeKeepsText ==
    pc = "merged" =>
        /\ segments = <<>> => merged = <<>>
        /\ EmbedsFrom(segments, merged, 1, 1, 1)

\* three segments with visible text were merged into fewer
C2_Witness ==
    /\ pc = "merged"
    /\ Len(segments) = 3
    /\ Len(merged) < 3
    /\ \A i \in 1 .. 3 : strip(segments[i][3]) # <<>>
    /\ segments[1][3] # segments[2][3]

SeqMax(ends) == CHOOSE x \in ends : \A y \in ends : y <= x

\* C3: every input segment's time range lies inside the range of an output
\* segment, and the latest end time of the output is the latest end time of
\* the input.
C3_MergeKeepsCoverage ==
    (pc = "merged" /\ segments # <<>>) =>
        /\ \A i \in 1 .. Len(segments) :
              \E j \in 1 .. Len(merged) :
                  merged[j][1] <= segments[i][1] /\ segments[i][2] <= merged[j][2]
        /\ SeqMax({ merged[j][2] : j \in 1 .. Len(merged) })
              = SeqMax({ segments[i][2] : i \in 1 .. Len(segments) })

----------------------------------------------------------------------------
(* Claims about bucket_segments (under SpecBucket)                         *)

\* the positions whose bucket index differs from their predecessor's
BucketCuts(segs, w) ==
    { i \in 2 .. Len(segs) : segs[i][1] \div w # segs[i - 1][1] \div w }

Texts(segs, c, l) == [ k \in 1 .. (l - c + 1) |-> segs[c + k - 1][3] ]

\* one aggregate per maximal run of equal bucket index, in input order:
\* first member's start, largest member end, and the text that TextOf gives
IsBucketing(segs, w, out, TextOf(_)) ==
    LET cuts == BucketCuts(segs, w)
        n    == Len(segs)
    IN  /\ Len(out) = Cardinality(GroupStarts(cuts))
        /\ \A c \in GroupStarts(cuts) :
              LET l == GroupLast(cuts, c, n) IN
              out[GroupRank(cuts, c)] =
                  <<segs[c][1],
                    SeqMax({ segs[i][2] : i \in c .. l }),
                    TextOf(Texts(segs, c, l))>>

JoinedBySpaces(texts) == join(<<" ">>, texts)
JoinedBySpacesTrimmed(texts) == strip(join(<<" ">>, texts))

\* C4 as stated: the aggregate's text is the members' texts joined with
\* single spaces.
C4_BucketRunsUntrimmed ==
    (pc = "bucketed" /\ bucket_seconds > 0 /\ segments # <<>>) =>
        IsBucketing(segments, bucket_seconds, grouped, JoinedBySpaces)

\* C4 amended: one aggregate per maximal run of consecutive segments with
\* equal bucket index, in input order; start is the first member's start,
\* end the maximum member end, text the members' texts joined with single
\* spaces and then trimmed; the documented example is returned unchanged.
C4_BucketRuns ==
    (pc = "bucketed" /\ bucket_seconds > 0 /\ segments # <<>>) =>
        /\ IsBucketing(segments, bucket_seconds, grouped, JoinedBySpacesTrimmed)
        /\ (segments = ExampleMerged /\ bucket_seconds = DefaultBucketSeconds)
              => grouped = ExampleMerged

\* a run of two segments was aggregated and a later run flushed it; the
\* first member's end is the larger one
C4_Witness ==
    /\ pc = "bucketed"
    /\ bucket_seconds > 0
    /\ Len(segments) = 3
    /\ Len(grouped) = 2
    /\ segments[1][2] > segments[2][2]
    /\ segments[1][1] \div bucket_seconds = segments[2][1] \div bucket_seconds

\* C5: bucket_segments returns its input when the width is not positive or
\* the input is empty; otherwise the bucket indices of the output's starts
\* strictly increase along the output.
C5_BucketIdentityAndOrder ==
    pc = "bucketed" =>
        /\ (bucket_seconds <= 0 \/ segments = <<>>) => grouped = segments
        /\ (bucket_seconds > 0 /\ segments # <<>>) =>
              /\ grouped # <<>>
              /\ \A j \in 1 .. Len(grouped) - 1 :
                    grouped[j][1] \div bucket_seconds
                        < grouped[j + 1][1] \div bucket_seconds

\* a positive width split three segments, two of them in one bucket
C5_Witness ==
    /\ pc = "bucketed"
    /\ bucket_seconds > 0
    /\ Len(segments) = 3
    /\ Len(grouped) = 2

----------------------------------------------------------------------------
(* cli.py: emit_progress and main's progress reporting                     *)
(*                                                                         *)
(* A percentage is the exact fraction <<numerator, denominator>> with a    *)
(* positive denominator; a printed value is the integer number of tenths   *)
(* that "{value:.1f}" shows.                                               *)

Pct(n) == <<n, 1>>
PctGeq(a, b) == a[1] * b[2] >= b[1] * a[2]
PctMin(a, b) == IF PctGeq(b, a) THEN a ELSE b
PctMax(a, b) == IF PctGeq(a, b) THEN a ELSE b
PctAddHalf(a) == <<2 * a[1] + a[2], 2 * a[2]>>

\* "{value:.1f}": the nearest tenth, a tie going to the even digit
FormatTenths(a) ==
    LET q == (10 * a[1]) \div a[2]
        r == (10 * a[1]) % a[2]
    IN  IF 2 * r < a[2] THEN q
        ELSE IF 2 * r > a[2] THEN q + 1
        ELSE IF q % 2 = 0 THEN q ELSE q + 1

\* cli.py:24-26  the value the [PROGRESS] line shows
emit_progress(percent) == FormatTenths(PctMax(Pct(0), PctMin(percent, Pct(100))))

\* cli.py:195-198  current_percent after the segment seg was appended
CurrentPercent(seg, dur, count) ==
    IF dur > 0
    THEN PctMax(Pct(0), PctMin(<<seg[2] * 100, dur>>, Pct(100)))
    ELSE PctMin(Pct(count * 5), Pct(99))

\* mutant: every segment reports its progress
ShouldEmitAlways(current_percent, last) == TRUE

\* cli.py:199  if current_percent >= last_percent + 0.5
ShouldEmit(current_percent, last) == PctGeq(current_percent, PctAddHalf(last))

\* the total durations and the segment end times the transcriber reports;
\* with 400, the ends 21, 22, 23 lie at 5.25 %, 5.5 % and 5.75 %
DurationPool == { 0, MaxTime, 400 }
EndPool == (0 .. MaxTime + 1) \cup { 21, 22, 23, 49, 400, 500 }

\* the text of every transcriber segment in the model
SpokenText == <<" ", "b", " ">>

InitMain ==
    /\ pc = "start"
    /\ duration = 0
    /\ raw_segments = <<>>
    /\ last_percent = Pct(0)
    /\ stdout = <<>>
    /\ segments = <<>>
    /\ min_duration = DefaultMinDuration
    /\ merged = <<>>
    /\ bucket_seconds = 0
    /\ grouped = <<>>
    /\ TextIdle
    /\ ClockIdle

\* cli.py:150-152  the input file does not exist
InputNotFound ==
    /\ pc = "start"
    /\ pc' = "failed"
    /\ UNCHANGED <<segVars, mainVars, textVars, clockVars>>

\* cli.py:154-166  emit_progress(0.0)
EmitStart ==
    /\ pc = "start"
    /\ stdout' = Append(stdout, emit_progress(Pct(0)))
    /\ last_percent' = Pct(0)
    /\ pc' = "extract"
    /\ UNCHANGED <<segVars, duration, raw_segments, textVars, clockVars>>

\* cli.py:167  extract_audio raises (subprocess.run(check=True))
ExtractFails ==
    /\ pc = "extract"
    /\ pc' = "failed"
    /\ UNCHANGED <<segVars, mainVars, textVars, clockVars>>

\* cli.py:167-169  extract_audio returns; emit_progress(5.0)
ExtractDone ==
    /\ pc = "extract"
    /\ stdout' = Append(stdout, emit_progress(Pct(5)))
    /\ last_percent' = Pct(5)
    /\ pc' = "model"
    /\ UNCHANGED <<segVars, duration, raw_segments, textVars, clockVars>>

\* cli.py:171-191  the model is loaded and transcribe returns the iterator
\* and info; duration = float(getattr(info, "duration", 0.0) or 0.0)
Transcribe ==
    /\ pc = "model"
    /\ \E d \in DurationPool : duration' = d
    /\ raw_segments' = <<>>
    /\ pc' = "segments"
    /\ UNCHANGED <<segVars, last_percent, stdout, textVars, clockVars>>

\* cli.py:171-192  the model or the segment iterator raises
TranscribeFails ==
    /\ pc \in { "model", "segments" }
    /\ pc' = "failed"
    /\ UNCHANGED <<segVars, mainVars, textVars, clockVars>>

\* cli.py:192-201  one iteration of the loop over segments_iter
NextSegment ==
    /\ pc = "segments"
    /\ Len(raw_segments) < MaxSegs
    /\ \E e \in EndPool :
          LET seg == <<0, e, SpokenText>>
              raw == Append(raw_segments, <<seg[1], seg[2], strip(seg[3])>>)
              current_percent == CurrentPercent(seg, duration, Len(raw))
          IN  /\ raw_segments' = raw
              /\ IF ShouldEmit(current_percent, last_percent)
                 THEN /\ stdout' = Append(stdout, emit_progress(current_percent))
                      /\ last_percent' = current_percent
                 ELSE UNCHANGED <<stdout, last_percent>>
    /\ UNCHANGED <<pc, segVars, duration, textVars, clockVars>>

\* cli.py:203-254  the iterator is exhausted: merge, write the outputs,
\* emit_progress(100.0)
Finish ==
    /\ pc = "segments"
    /\ segments' = merge_short_segments(raw_segments, min_duration)
    /\ stdout' = Append(stdout, emit_progress(Pct(100)))
    /\ pc' = "done"
    /\ UNCHANGED <<min_duration, merged, bucket_seconds, grouped>>
    /\ UNCHANGED <<duration, raw_segments, last_percent, textVars, clockVars>>

NextMain ==
    \/ InputNotFound
    \/ EmitStart
    \/ ExtractFails
    \/ ExtractDone
    \/ Transcribe
    \/ TranscribeFails
    \/ NextSegment
    \/ Finish

SpecMain == InitMain /\ [][NextMain]_vars

\* C6: the printed progress values never decrease, all lie in [0, 100],
\* the first is 0 and, once main has returned, the last is 100.
C6_ProgressMonotone ==
    /\ \A i \in 1 .. Len(stdout) - 1 : stdout[i] <= stdout[i + 1]
    /\ \A i \in 1 .. Len(stdout) : 0 <= stdout[i] /\ stdout[i] <= 1000
    /\ stdout # <<>> => stdout[1] = 0
    /\ pc = "done" => (stdout # <<>> /\ stdout[Len(stdout)] = 1000)

\* main returned after a segment below the last report was skipped and a
\* later one was reported
C6_Witness ==
    /\ pc = "done"
    /\ duration > 0
    /\ Len(raw_segments) = 3
    /\ Len(stdout) = 5
    /\ raw_segments[2][2] < raw_segments[1][2]

----------------------------------------------------------------------------
(* postprocess.py                                                          *)

\* postprocess.py:10  SENTENCE_ENDERS, the four non-ASCII ones by code point
SENTENCE_ENDERS == { "U+3002", ".", "!", "?", "U+FF01", "U+FF1F", "U+2026", "U+2025" }

\* re.sub(r"\s+", " ", text)
RECURSIVE CollapseWhitespace(_)
CollapseWhitespace(t) ==
    IF t = <<>> THEN <<>>
    ELSE IF Head(t) \in Whitespace
         THEN <<" ">> \o CollapseWhitespace(lstrip(t))
         ELSE <<Head(t)>> \o CollapseWhitespace(Tail(t))

\* postprocess.py:13-14
_normalize_whitespace(text) == strip(CollapseWhitespace(text))

\* chunk.strip() for chunk in chunks if chunk.strip()
RECURSIVE StrippedNonBlank(_)
StrippedNonBlank(chunks) ==
    IF chunks = <<>> THEN <<>>
    ELSE IF strip(Head(chunks)) # <<>>
         THEN <<strip(Head(chunks))>> \o StrippedNonBlank(Tail(chunks))
         ELSE StrippedNonBlank(Tail(chunks))

\* mutant: only the ASCII terminators close a sentence
IsEnderAscii(ch) == ch \in { ".", "!", "?" }

\* postprocess.py:28  if ch in SENTENCE_ENDERS
IsEnder(ch) == ch \in SENTENCE_ENDERS

\* postprocess.py:29-31, 34-36  the normalized buffer is appended unless empty
CloseSentence(acc, buffer) ==
    LET sentence == _normalize_whitespace(buffer)
    IN  IF sentence # <<>> THEN Append(acc, sentence) ELSE acc

\* postprocess.py:26-37  the scan over joined and the trailing buffer
RECURSIVE ScanLoop(_, _, _)
ScanLoop(rest, buffer, acc) ==
    IF rest = <<>>
    THEN IF buffer # <<>> THEN CloseSentence(acc, buffer) ELSE acc
    ELSE LET ch  == Head(rest)
             buf == Append(buffer, ch)
         IN  IF IsEnder(ch)
             THEN ScanLoop(Tail(rest), <<>>, CloseSentence(acc, buf))
             ELSE ScanLoop(Tail(rest), buf, acc)

\* postprocess.py:17-37
_collect_sentences(chunks) ==
    LET joined == _normalize_whitespace(join(<<" ">>, StrippedNonBlank(chunks)))
    IN  IF joined = <<>> THEN <<>> ELSE ScanLoop(joined, <<>>, <<>>)

\* seg[2] for seg in segments
SegmentTexts(segs) == [ i \in 1 .. Len(segs) |-> segs[i][3] ]

\* mutant: the slice loses its last sentence
ParagraphSliceShort(sents, i, n) == SubSeq(sents, i + 1, Min(i + n - 1, Len(sents)))

\* postprocess.py:44  sentences[i : i + sentences_per_paragraph]
ParagraphSlice(sents, i, n) == SubSeq(sents, i + 1, Min(i + n, Len(sents)))

\* postprocess.py:44  the paragraphs for i in range(i, len(sentences), n), n >= 1
RECURSIVE Paragraphs(_, _, _)
Paragraphs(sents, i, n) ==
    IF i >= Len(sents) THEN <<>>
    ELSE <<join(<<>>, ParagraphSlice(sents, i, n))>> \o Paragraphs(sents, i + n, n)

\* postprocess.py:40-45, for sentences_per_paragraph >= 1
format_plain_text(segs, n) ==
    LET sents == _collect_sentences(SegmentTexts(segs))
    IN  IF sents = <<>> THEN <<>>
        ELSE join(<<"\n", "\n">>, Paragraphs(sents, 0, n))

\* postprocess.py:48-52
format_markdown_text(segs) ==
    LET sents == _collect_sentences(SegmentTexts(segs))
    IN  IF sents = <<>> THEN <<>>
        ELSE join(<<"\n">>, [ i \in 1 .. Len(sents) |-> <<"-", " ">> \o sents[i] ])

UpperLetters ==
    << "A", "B", "C", "D", "E", "F", "G", "H", "I", "J", "K", "L", "M",
       "N", "O", "P", "Q", "R", "S", "T", "U", "V", "W", "X", "Y", "Z" >>
LowerLetters ==
    << "a", "b", "c", "d", "e", "f", "g", "h", "i", "j", "k", "l", "m",
       "n", "o", "p", "q", "r", "s", "t", "u", "v", "w", "x", "y", "z" >>

LowerChar(c) ==
    IF \E k \in 1 .. 26 : UpperLetters[k] = c
    THEN LowerLetters[CHOOSE k \in 1 .. 26 : UpperLetters[k] = c]
    ELSE c

\* str.lower()
lower(s) == [ i \in 1 .. Len(s) |-> LowerChar(s[i]) ]

Plain == <<"p", "l", "a", "i", "n">>
Markdown == <<"m", "a", "r", "k", "d", "o", "w", "n">>

\* postprocess.py:63  the text before the style in the ValueError's message
UnsupportedPrefix == <<"Unsupported transcript style: ">>

\* postprocess.py:40  sentences_per_paragraph: int = 3
DefaultSentencesPerParagraph == 3

\* mutant: the style is compared as the caller wrote it
EffectiveStyleAsGiven(s) == IF s # <<>> THEN s ELSE Plain

\* postprocess.py:58  style = (style or "plain").lower()
EffectiveStyle(s) == lower(IF s # <<>> THEN s ELSE Plain)

\* postprocess.py:55-63
format_transcript(segs, s) ==
    LET st == EffectiveStyle(s)
    IN  IF st = Plain
        THEN <<"return", format_plain_text(segs, DefaultSentencesPerParagraph)>>
        ELSE IF st = Markdown
        THEN <<"return", format_markdown_text(segs)>>
        ELSE <<"ValueError", UnsupportedPrefix \o st>>

----------------------------------------------------------------------------
(* Specifications of the postprocess functions over bounded inputs.  The   *)
(* segment texts are built one character at a time over TextAlphabet; a    *)
(* list with t characters in s segments has size t + s.                    *)

MaxText == 6
MaxPerParagraph == 2

TextAlphabet == { "a", " ", "\n", ".", "U+3002" }

RECURSIVE TextSize(_)
TextSize(segs) ==
    IF segs = <<>> THEN 0 ELSE 1 + Len(Head(segs)[3]) + TextSize(Tail(segs))

NewTextSegment ==
    /\ pc = "input"
    /\ TextSize(segments) < MaxText
    /\ segments' = Append(segments, <<0, 0, <<>> >>)
    /\ UNCHANGED <<pc, min_duration, merged, bucket_seconds, grouped>>
    /\ UNCHANGED <<mainVars, textVars, clockVars>>

AddChar ==
    /\ pc = "input"
    /\ segments # <<>>
    /\ TextSize(segments) < MaxText
    /\ \E ch \in TextAlphabet :
          segments' = [segments EXCEPT ![Len(segments)][3] = Append(@, ch)]
    /\ UNCHANGED <<pc, min_duration, merged, bucket_seconds, grouped>>
    /\ UNCHANGED <<mainVars, textVars, clockVars>>

InitText ==
    /\ pc = "input"
    /\ segments = <<>>
    /\ min_duration = 0
    /\ merged = <<>>
    /\ bucket_seconds = 0
    /\ grouped = <<>>
    /\ MainIdle
    /\ TextIdle
    /\ ClockIdle

CallCollect ==
    /\ pc = "input"
    /\ sentences' = _collect_sentences(SegmentTexts(segments))
    /\ pc' = "collected"
    /\ UNCHANGED <<segVars, mainVars, clockVars, sentences_per_paragraph, style, outcome>>

NextCollect == NewTextSegment \/ AddChar \/ CallCollect

SpecCollect == InitText /\ [][NextCollect]_vars

CallFormatPlain ==
    /\ pc = "input"
    /\ \E n \in (1 .. MaxPerParagraph) \cup { DefaultSentencesPerParagraph } :
          /\ sentences_per_paragraph' = n
          /\ outcome' = <<"return", format_plain_text(segments, n)>>
    /\ pc' = "plain"
    /\ UNCHANGED <<segVars, mainVars, clockVars, sentences, style>>

NextPlain == NewTextSegment \/ AddChar \/ CallFormatPlain

SpecPlain == InitText /\ [][NextPlain]_vars

StylePool ==
    { Plain, Markdown, <<>>,
      <<"P", "L", "A", "I", "N">>,
      <<"M", "a", "r", "k", "d", "o", "w", "n">>,
      <<"u", "n", "k", "n", "o", "w", "n">>,
      <<"U", "n", "k", "n", "o", "w", "n">>,
      <<"s", "r", "t">> }

CallFormatTranscript ==
    /\ pc = "input"
    /\ \E s \in StylePool :
          /\ style' = s
          /\ outcome' = format_transcript(segments, s)
    /\ pc' = "formatted"
    /\ UNCHANGED <<segVars, mainVars, clockVars, sentences, sentences_per_paragraph>>

NextTranscript == NewTextSegment \/ AddChar \/ CallFormatTranscript

SpecTranscript == InitText /\ [][NextTranscript]_vars

----------------------------------------------------------------------------
(* Claims about postprocess.py                                             *)

IsVisible(ch) == ch \notin Whitespace

\* the characters of a list of strings, whitespace left out
Visible(strs) == SelectSeq(join(<<>>, strs), IsVisible)

\* C8: every sentence but possibly the last ends with a terminator, no
\* sentence holds a terminator before its last character, the sentences
\* hold exactly the input's visible characters in the input's order, and
\* input that ends unterminated yields an unterminated last sentence.
C8_SentencesCloseAtTerminators ==
    pc = "collected" =>
        LET flat == Visible(SegmentTexts(segments)) IN
        /\ \A i \in 1 .. Len(sentences) :
              /\ sentences[i] # <<>>
              /\ \A p \in 1 .. Len(sentences[i]) - 1 :
                    sentences[i][p] \notin SENTENCE_ENDERS
        /\ \A i \in 1 .. Len(sentences) - 1 :
              sentences[i][Len(sentences[i])] \in SENTENCE_ENDERS
        /\ Visible(sentences) = flat
        /\ (flat # <<>> /\ flat[Len(flat)] \notin SENTENCE_ENDERS) =>
              /\ sentences # <<>>
              /\ sentences[Len(sentences)][Len(sentences[Len(sentences)])]
                     \notin SENTENCE_ENDERS

\* two segments gave a sentence closed by the ideographic full stop and an
\* unterminated remainder
C8_Witness ==
    /\ pc = "collected"
    /\ Len(segments) = 2
    /\ Len(sentences) = 2
    /\ sentences[1][Len(sentences[1])] = "U+3002"
    /\ sentences[2][Len(sentences[2])] \notin SENTENCE_ENDERS

\* text.split("\n\n")
RECURSIVE SplitParagraphs(_, _)
SplitParagraphs(text, current) ==
    IF text = <<>> THEN <<current>>
    ELSE IF Len(text) >= 2 /\ text[1] = "\n" /\ text[2] = "\n"
         THEN <<current>> \o SplitParagraphs(SubSeq(text, 3, Len(text)), <<>>)
         ELSE SplitParagraphs(Tail(text), Append(current, Head(text)))

\* C10: k reconstructed sentences give ceil(k/N) paragraphs separated by a
\* blank line, the j-th holding sentences (j-1)N+1 .. min(jN, k) with no
\* separator; no sentences give the empty string.
C10_PlainParagraphs ==
    pc = "plain" =>
        LET sents == _collect_sentences(SegmentTexts(segments))
            k     == Len(sents)
            n     == sentences_per_paragraph
            paras == SplitParagraphs(outcome[2], <<>>)
        IN  /\ outcome[1] = "return"
            /\ k = 0 => outcome[2] = <<>>
            /\ k > 0 =>
                  /\ Len(paras) = (k + n - 1) \div n
                  /\ \A j \in 1 .. Len(paras) :
                        paras[j] = join(<<>>, SubSeq(sents, (j - 1) * n + 1, Min(j * n, k)))

\* three sentences were grouped two to a paragraph: a full paragraph and a
\* shorter last one
C10_Witness ==
    /\ pc = "plain"
    /\ sentences_per_paragraph = 2
    /\ Len(_collect_sentences(SegmentTexts(segments))) = 3
    /\ Len(SplitParagraphs(outcome[2], <<>>)) = 2

EndsWith(s, t) == Len(s) >= Len(t) /\ SubSeq(s, Len(s) - Len(t) + 1, Len(s)) = t

\* C7 as stated: a style other than "plain" and "markdown" fails with the
\* unsupported-style error whose message names the style as it was passed.
C7_UnsupportedStyleAsPassed ==
    (pc = "formatted" /\ style \notin { Plain, Markdown }) =>
        /\ outcome[1] = "ValueError"
        /\ Head(outcome[2]) = Head(UnsupportedPrefix)
        /\ EndsWith(outcome[2], style)

\* C7 amended: a style whose lower-cased form, the empty style counting as
\* "plain", is neither "plain" nor "markdown" fails with the
\* unsupported-style error whose message names the lower-cased style, for
\* every segment list, and returns no text.
C7_UnsupportedStyleLowered ==
    (pc = "formatted"
        /\ lower(IF style = <<>> THEN Plain ELSE style) \notin { Plain, Markdown }) =>
        /\ outcome[1] = "ValueError"
        /\ outcome[2] = UnsupportedPrefix \o lower(style)

\* a style written with a capital was rejected, for a non-empty segment list
C7_Witness ==
    /\ pc = "formatted"
    /\ style = <<"U", "n", "k", "n", "o", "w", "n">>
    /\ segments # <<>>
    /\ outcome[1] = "ValueError"

----------------------------------------------------------------------------
(* cli.py: hhmmss_ms and webvtt_ts                                         *)
(*                                                                         *)
(* seconds is held as an exact count of quarter milliseconds, so that      *)
(* seconds * 1000 has the fractions .0, .25, .5 and .75.                   *)

\* mutant: the milliseconds are truncated
MillisTruncated(quarters) == quarters \div 4

\* cli.py:30, 38  int(round(seconds * 1000)): nearest, a tie going to even
Millis(quarters) ==
    LET q == quarters \div 4
        r == quarters % 4
    IN  IF r < 2 THEN q
        ELSE IF r > 2 THEN q + 1
        ELSE IF q % 2 = 0 THEN q ELSE q + 1

DigitChars == << "0", "1", "2", "3", "4", "5", "6", "7", "8", "9" >>

\* str(n) for n >= 0
RECURSIVE Decimal(_)
Decimal(n) ==
    IF n < 10 THEN <<DigitChars[n + 1]>>
    ELSE Decimal(n \div 10) \o <<DigitChars[(n % 10) + 1]>>

\* "{n:0wd}": zero-padded to at least width characters
RECURSIVE ZeroPad(_, _)
ZeroPad(digits, width) ==
    IF Len(digits) >= width THEN digits ELSE ZeroPad(<<"0">> \o digits, width)

Fixed(n, width) == ZeroPad(Decimal(n), width)

\* cli.py:31-33, 39-41  the three divmods: <<h, m, s, ms>>
ClockFields(ms_total) ==
    LET s == ms_total \div 1000
        m == s \div 60
    IN  <<m \div 60, m % 60, s % 60, ms_total % 1000>>

ClockString(f, sep) ==
    Fixed(f[1], 2) \o <<":">> \o Fixed(f[2], 2) \o <<":">> \o Fixed(f[3], 2)
        \o <<sep>> \o Fixed(f[4], 3)

\* cli.py:29-34
hhmmss_ms(quarters) == ClockString(ClockFields(Millis(quarters)), ",")

\* mutant: webvtt_ts truncates where hhmmss_ms rounds
webvtt_ts_truncating(quarters) == ClockString(ClockFields(MillisTruncated(quarters)), ".")

\* cli.py:37-42
webvtt_ts(quarters) == ClockString(ClockFields(Millis(quarters)), ".")

\* the timestamps of the model: hours : minutes : seconds , milliseconds
\* plus a fraction of a millisecond, as a count of quarter milliseconds
MaxHours == 2

Quarters(h, m, s, ms, frac) == 4 * (((h * 60 + m) * 60 + s) * 1000 + ms) + frac

ClockInputs ==
    { Quarters(h, m, s, ms, frac) :
        h \in (0 .. MaxHours) \cup { 99, 100 },
        m \in { 0, 2, 59 },
        s \in { 0, 5, 59 },
        ms \in { 0, 400, 998, 999 },
        frac \in 0 .. 3 }

\* 3725.4 s
ExampleSeconds == Quarters(1, 2, 5, 400, 0)

InitClock ==
    /\ pc = "input"
    /\ seconds \in ClockInputs
    /\ srt_ts = <<>>
    /\ vtt_ts = <<>>
    /\ segments = <<>>
    /\ min_duration = 0
    /\ merged = <<>>
    /\ bucket_seconds = 0
    /\ grouped = <<>>
    /\ MainIdle
    /\ TextIdle

CallClocks ==
    /\ pc = "input"
    /\ srt_ts' = hhmmss_ms(seconds)
    /\ vtt_ts' = webvtt_ts(seconds)
    /\ pc' = "clocked"
    /\ UNCHANGED <<segVars, mainVars, textVars, seconds>>

NextClock == CallClocks

SpecClock == InitClock /\ [][NextClock]_vars

----------------------------------------------------------------------------
(* Claim about the time formatter (under SpecClock)                        *)

DigitValue(ch) == (CHOOSE k \in 1 .. 10 : DigitChars[k] = ch) - 1

IsDigits(str) == \A i \in 1 .. Len(str) : \E k \in 1 .. 10 : DigitChars[k] = str[i]

\* int(str) for a string of digits
RECURSIVE ParseDecimal(_)
ParseDecimal(str) ==
    IF str = <<>> THEN 0
    ELSE 10 * ParseDecimal(SubSeq(str, 1, Len(str) - 1)) + DigitValue(str[Len(str)])

\* str is H..H:MM:SS<sep>mmm with at least two hour digits; the fields as numbers
IsClock(str, sep) ==
    LET n == Len(str) IN
    /\ n >= 12
    /\ str[n - 3] = sep /\ str[n - 6] = ":" /\ str[n - 9] = ":"
    /\ IsDigits(SubSeq(str, 1, n - 10))
    /\ IsDigits(SubSeq(str, n - 8, n - 7))
    /\ IsDigits(SubSeq(str, n - 5, n - 4))
    /\ IsDigits(SubSeq(str, n - 2, n))

FieldsOf(str) ==
    LET n == Len(str) IN
    << ParseDecimal(SubSeq(str, 1, n - 10)),
       ParseDecimal(SubSeq(str, n - 8, n - 7)),
       ParseDecimal(SubSeq(str, n - 5, n - 4)),
       ParseDecimal(SubSeq(str, n - 2, n)) >>

\* C9: the two clock strings have the same digit groups and differ only in
\* the millisecond separator; the groups are below 1000, 60 and 60, the
\* hours are uncapped, and the groups add up to round(seconds * 1000);
\* 3725.4 gives 01:02:05,400 and 01:02:05.400.
C9_ClocksAgree ==
    pc = "clocked" =>
        LET f == FieldsOf(srt_ts) IN
        /\ IsClock(srt_ts, ",")
        /\ IsClock(vtt_ts, ".")
        /\ Len(srt_ts) = Len(vtt_ts)
        /\ \A i \in 1 .. Len(srt_ts) : i # Len(srt_ts) - 3 => srt_ts[i] = vtt_ts[i]
        /\ f[4] < 1000 /\ f[3] < 60 /\ f[2] < 60
        /\ f[1] * 3600000 + f[2] * 60000 + f[3] * 1000 + f[4] = Millis(seconds)
        /\ seconds = ExampleSeconds =>
              /\ srt_ts = <<"0", "1", ":", "0", "2", ":", "0", "5", ",", "4", "0", "0">>
              /\ vtt_ts = <<"0", "1", ":", "0", "2", ":", "0", "5", ".", "4", "0", "0">>

\* 00:59:59,999.5 was rounded up and carried into the hour
C9_Witness ==
    /\ pc = "clocked"
    /\ seconds = Quarters(0, 59, 59, 999, 2)
    /\ srt_ts = <<"0", "1", ":", "0", "0", ":", "0", "0", ",", "0", "0", "0">>
    /\ vtt_ts = <<"0", "1", ":", "0", "0", ":", "0", "0", ".", "0", "0", "0">>

====
